---- MODULE Spec2Model ----
(***************************************************************************)
(* GIF to AVIF converter: the frame-timing balancer (calculate_timing),    *)
(* the frame expander (duplicate_frames_for_timing) and the two conversion *)
(* pipelines (gif_to_avif.py and avif_gifs/gif_to_avif.py).                *)
(*                                                                         *)
(* A GIF is a sequence of raw frame delays; frame i's picture is the       *)
(* number i.  The temporary directory is the list of its *.png entries,    *)
(* each a record [name, content]; a name is the sequence of the character  *)
(* codes of the file name, so that sorted() is Python's string order.      *)
(* The input file is taken to be named *.gif (usage line 307), so the      *)
(* temp_<name> copy of it never matches the *.png pattern.                 *)
(***************************************************************************)
EXTENDS Integers, Sequences, FiniteSets, TLC

\* ---------------------------------------------------------------- bounds
\* longest GIF (in frames) of the exhaustive part of the input space
MaxLen == 3
\* frame count of the long GIF of SpecBig
BigFrames == 1000

\* longest GIF made of power-of-two multiples of one delay
MaxPowerLen == 2

\* raw per-frame delays (ms) a GIF of the exhaustive input space may carry
RawDurations == {0, 1, 100, 200, 750, 799, 800}
\* 11 ms times 2^0, 2^1, 2^12 and 2^13
PowerDurations == {11, 22, 45056, 90112}

\* ------------------------------------------------------ program constants
\* a cap two iterations short
ReducedCap == 5 * 2
max_iterations == 12
DefaultDuration == 40

\* ------------------------------------------------------------- arithmetic
\* s[lo] + ... + s[hi], by halves so that long sequences stay shallow
RECURSIVE SumRange(_, _, _)
SumRange(s, lo, hi) ==
    IF lo > hi THEN 0
    ELSE IF lo = hi THEN s[lo]
    ELSE LET mid == (lo + hi) \div 2
         IN  SumRange(s, lo, mid) + SumRange(s, mid + 1, hi)

SumSeq(s) == SumRange(s, 1, Len(s))

MinOf(S) == CHOOSE x \in S : \A y \in S : x <= y
MaxOf(S) == CHOOSE x \in S : \A y \in S : x >= y

\* max(1, duration): the clamp both duration readers apply to a raw delay
\* the delay taken as it is
ClampNoop(d) == d
Clamp(d) == IF d < 1 THEN 1 ELSE d

\* round(mean(xs)): statistics.mean of ints is the exact quotient, and
\* round() rounds it to the nearest integer, a tie going to the even one
RoundMean(s) ==
    LET total == SumSeq(s)
        n == Len(s)
        q == total \div n
        r == total % n
    IN  IF 2 * r < n THEN q
        ELSE IF 2 * r > n THEN q + 1
        ELSE IF q % 2 = 0 THEN q ELSE q + 1

\* frame["duration"] //= 2 ; frame["subdivisions"] *= 2
\* halving that rounds up; doubling replaced by adding two
HalveRoundUp(d) == (d + 1) \div 2
Halve(d) == d \div 2
DoublePlus(s) == s + 2
Double(s) == s * 2

\* ------------------------------------------------------- calculate_timing
\* one record per input duration
NewFrames(durations) ==
    [i \in 1..Len(durations) |-> [duration |-> durations[i], subdivisions |-> 1]]

DurationsOf(fs) == [i \in 1..Len(fs) |-> fs[i].duration]
\* the list built from the wrong field
SubdivisionsOfWrongField(fs) == [i \in 1..Len(fs) |-> fs[i].duration]
SubdivisionsOf(fs) == [i \in 1..Len(fs) |-> fs[i].subdivisions]
MinDuration(fs) == MinOf({fs[i].duration : i \in 1..Len(fs)})
MaxDuration(fs) == MaxOf({fs[i].duration : i \in 1..Len(fs)})

\* (max_duration <= min_duration * 1.1) or abs(max_duration - min_duration) <= 10
\* The float product min * 1.1 is compared with an integer; for the integers
\* in range the comparison agrees with the exact one, 10 * max <= 11 * min.
\* (ConvergedLoose: the absolute tolerance taken as 20)
ConvergedLoose(fs) ==
    LET min_duration == MinDuration(fs)
        max_duration == MaxDuration(fs)
    IN  \/ 10 * max_duration <= 11 * min_duration
        \/ max_duration - min_duration <= 20
Converged(fs) ==
    LET min_duration == MinDuration(fs)
        max_duration == MaxDuration(fs)
    IN  \/ 10 * max_duration <= 11 * min_duration
        \/ max_duration - min_duration <= 10

\* longest_frames: the indices of every record at the maximum
\* (FirstLongestFrame: only the first of them)
FirstLongestFrame(fs) ==
    LET max_duration == MaxDuration(fs)
    IN  {MinOf({i \in 1..Len(fs) : fs[i].duration = max_duration})}
LongestFrames(fs) ==
    LET max_duration == MaxDuration(fs)
    IN  {i \in 1..Len(fs) : fs[i].duration = max_duration}

\* split all longest frames in half
SplitLongest(fs) ==
    LET longest_frames == LongestFrames(fs)
    IN  [i \in 1..Len(fs) |->
            IF i \in longest_frames
            THEN [duration |-> Halve(fs[i].duration),
                  subdivisions |-> Double(fs[i].subdivisions)]
            ELSE fs[i]]

\* ------------------------------------------------------------ file names
Underscore == 95
PngSuffix == <<46, 112, 110, 103>>
DuplicateName == <<100, 117, 112, 108, 105, 99, 97, 116, 101>> \o PngSuffix

RECURSIVE Digits(_)
Digits(n) == IF n < 10 THEN <<48 + n>> ELSE Append(Digits(n \div 10), 48 + (n % 10))

\* format spec 0Nd: zero-padded to at least width characters
ZeroPad(n, width) ==
    LET ds == Digits(n)
    IN  IF Len(ds) >= width THEN ds
        ELSE [i \in 1..(width - Len(ds)) |-> 48] \o ds

\* f"{i + 1:03d}.png"
SourceName(i) == ZeroPad(i + 1, 3) \o PngSuffix
\* f"_{frame_counter:04d}.png"
BalancedName(frame_counter) == <<Underscore>> \o ZeroPad(frame_counter, 4) \o PngSuffix

\* Python's str ordering: by code point, a proper prefix first
RECURSIVE LexLessFrom(_, _, _)
LexLessFrom(a, b, k) ==
    IF k > Len(b) THEN FALSE
    ELSE IF k > Len(a) THEN TRUE
    ELSE IF a[k] = b[k] THEN LexLessFrom(a, b, k + 1)
    ELSE a[k] < b[k]

NameLess(x, y) == LexLessFrom(x.name, y.name, 1)

\* sorted(glob.glob(os.path.join(temp_dir, "*.png")))
SortedPng(dir) == SortSeq(dir, NameLess)

ContentsOf(files) == [i \in 1..Len(files) |-> files[i].content]
NamesOf(files) == {files[i].name : i \in 1..Len(files)}

\* the frames convert_gif_to_png_pil / gif_to_frames write for n frames
PngFrames(n) == [i \in 1..n |-> [name |-> SourceName(i - 1), content |-> i]]

\* ------------------------------------------------ duplicate_frames_for_timing
\* the copies the loop over zip(original_files, duplication_counts) makes for
\* the pairs lo..hi, frame_counter being the number of copies made before
\* pair lo; the range is cut in halves so that long listings stay shallow
RECURSIVE CopiesRange(_, _, _, _, _)
CopiesRange(original_files, counts, lo, hi, frame_counter) ==
    IF lo > hi THEN <<>>
    ELSE IF lo = hi
    THEN [j \in 1..counts[lo] |->
             [name |-> BalancedName(frame_counter + j - 1),
              content |-> original_files[lo].content]]
    ELSE LET mid == (lo + hi) \div 2
         IN  CopiesRange(original_files, counts, lo, mid, frame_counter)
             \o CopiesRange(original_files, counts, mid + 1, hi,
                            frame_counter + SumRange(counts, lo, mid))

\* zip stops at the shorter of the two lists
ZipLen(original_files, counts) ==
    IF Len(original_files) <= Len(counts) THEN Len(original_files) ELSE Len(counts)

\* the directory after the copy loop and the removal of the original files
DuplicateFrames(dir, counts) ==
    LET original_files == SortedPng(dir)
        originals == NamesOf(original_files)
        copied == dir \o CopiesRange(original_files, counts, 1,
                                      ZipLen(original_files, counts), 0)
    IN  SelectSeq(copied, LAMBDA f : f.name \notin originals)

\* any(count > 1 for count in duplication_counts)
AnyAbove1(counts) == \E i \in 1..Len(counts) : counts[i] > 1

\* handle_single_frame: a lone png is copied to duplicate.png
\* (HandleSingleFrameSkipped: the copy left out)
HandleSingleFrameSkipped(dir) == dir
HandleSingleFrame(dir) ==
    IF Len(dir) = 1
    THEN Append(dir, [name |-> DuplicateName, content |-> dir[1].content])
    ELSE dir

\* ------------------------------------------------------------------ state
VARIABLES
    script,              \* which of the two scripts runs
    gif,                 \* the input GIF: its raw per-frame delays
    pc,                  \* position in convert_gif_to_avif / calculate_timing
    frame_durations_ms,  \* the durations read; <<>> stands for None
    frames,              \* calculate_timing's records
    iteration,           \* loop bodies of calculate_timing completed
    uniform_duration,
    duplication_counts,  \* <<>> stands for None and for []
    temp_dir,            \* the *.png entries of the temporary directory
    avifenc              \* the encoder call: made or not, frames and durations

vars == <<script, gif, pc, frame_durations_ms, frames, iteration,
          uniform_duration, duplication_counts, temp_dir, avifenc>>

NotInvoked == [invoked |-> FALSE, files |-> <<>>, durations |-> <<>>]

Gifs ==
    (UNION {[1..n -> RawDurations] : n \in 1..MaxLen})
    \cup (UNION {[1..n -> PowerDurations] : n \in 1..MaxPowerLen})
\* a long GIF whose last frame lasts twice as long as the others
BigGif == [i \in 1..BigFrames |-> IF i = BigFrames THEN 200 ELSE 100]

\* the frame count of the file gifsicle wrote: that file is the tool's own
\* output, decoded separately from the input the durations were read from
DecodedFrameCounts(g) == {Len(g)} \cup (1..MaxLen)

InitWith(inputs) ==
    /\ script \in {"main", "avif_gifs"}
    /\ gif \in inputs
    /\ pc = IF script = "main" THEN "get_durations" ELSE "ag_optimize"
    /\ frame_durations_ms = <<>>
    /\ frames = <<>>
    /\ iteration = 0
    /\ uniform_duration = 0
    /\ duplication_counts = <<>>
    /\ temp_dir = <<>>
    /\ avifenc = NotInvoked

Init == InitWith(Gifs)
InitBig == InitWith(Gifs \cup {BigGif})

\* ------------------------------------------- gif_to_avif.py: the pipeline
\* get_frame_durations_pil: the clamped delays, or None when PIL raises
GetFrameDurations ==
    /\ pc = "get_durations"
    /\ \E ok \in BOOLEAN :
         frame_durations_ms' = IF ok THEN [i \in 1..Len(gif) |-> Clamp(gif[i])] ELSE <<>>
    /\ pc' = IF frame_durations_ms' # <<>> THEN "calculate_timing" ELSE "fallback"
    /\ UNCHANGED <<script, gif, frames, iteration, uniform_duration,
                   duplication_counts, temp_dir, avifenc>>

\* lines 275-278: fallback to uniform 25fps
Fallback ==
    /\ pc = "fallback"
    /\ uniform_duration' = DefaultDuration
    /\ duplication_counts' = <<>>
    /\ pc' = "optimize"
    /\ UNCHANGED <<script, gif, frame_durations_ms, frames, iteration, temp_dir, avifenc>>

\* calculate_timing, lines 116-126
TimingStart ==
    /\ pc = "calculate_timing"
    /\ IF frame_durations_ms = <<>>
       THEN /\ uniform_duration' = DefaultDuration
            /\ duplication_counts' = <<>>
            /\ pc' = "optimize"
            /\ UNCHANGED <<frames, iteration>>
       ELSE /\ frames' = NewFrames(frame_durations_ms)
            /\ iteration' = 0
            /\ pc' = "loop"
            /\ UNCHANGED <<uniform_duration, duplication_counts>>
    /\ UNCHANGED <<script, gif, frame_durations_ms, temp_dir, avifenc>>

\* one loop body that splits, lines 128-144
TimingSplit ==
    /\ pc = "loop"
    /\ iteration < max_iterations
    /\ ~Converged(frames)
    /\ frames' = SplitLongest(frames)
    /\ iteration' = iteration + 1
    /\ UNCHANGED <<script, gif, pc, frame_durations_ms, uniform_duration,
                   duplication_counts, temp_dir, avifenc>>

\* the break of line 134
TimingBreak ==
    /\ pc = "loop"
    /\ iteration < max_iterations
    /\ Converged(frames)
    /\ pc' = "average"
    /\ UNCHANGED <<script, gif, frame_durations_ms, frames, iteration,
                   uniform_duration, duplication_counts, temp_dir, avifenc>>

\* range(max_iterations) is used up
TimingExhausted ==
    /\ pc = "loop"
    /\ iteration >= max_iterations
    /\ pc' = "average"
    /\ UNCHANGED <<script, gif, frame_durations_ms, frames, iteration,
                   uniform_duration, duplication_counts, temp_dir, avifenc>>

\* lines 146-157: the average and the duplication list
TimingReturn ==
    /\ pc = "average"
    /\ uniform_duration' = RoundMean(DurationsOf(frames))
    /\ duplication_counts' = SubdivisionsOf(frames)
    /\ pc' = "optimize"
    /\ UNCHANGED <<script, gif, frame_durations_ms, frames, iteration, temp_dir, avifenc>>

\* optimize_gif_alpha: two gifsicle runs; run_command raises when one fails
OptimizeGifAlpha ==
    /\ pc = "optimize"
    /\ \E ok \in BOOLEAN : pc' = IF ok THEN "to_png" ELSE "raised"
    /\ UNCHANGED <<script, gif, frame_durations_ms, frames, iteration,
                   uniform_duration, duplication_counts, temp_dir, avifenc>>

\* convert_gif_to_png_pil on the optimized file
ConvertGifToPng ==
    /\ pc = "to_png"
    /\ \/ \E n \in DecodedFrameCounts(gif) :
            /\ temp_dir' = PngFrames(n)
            /\ pc' = "duplicate"
       \/ /\ pc' = "raised"
          /\ UNCHANGED temp_dir
    /\ UNCHANGED <<script, gif, frame_durations_ms, frames, iteration,
                   uniform_duration, duplication_counts, avifenc>>

\* lines 289-290 with duplicate_frames_for_timing
\* (DuplicateFramesUnchecked: the same without the length assertion)
DuplicateFramesUnchecked ==
    /\ pc = "duplicate"
    /\ duplication_counts # <<>>
    /\ AnyAbove1(duplication_counts)
    /\ temp_dir' = DuplicateFrames(temp_dir, duplication_counts)
    /\ pc' = "single_frame"
    /\ UNCHANGED <<script, gif, frame_durations_ms, frames, iteration,
                   uniform_duration, duplication_counts, avifenc>>
DuplicateFramesForTiming ==
    /\ pc = "duplicate"
    /\ duplication_counts # <<>>
    /\ AnyAbove1(duplication_counts)
    /\ IF Len(SortedPng(temp_dir)) = Len(duplication_counts)
       THEN /\ temp_dir' = DuplicateFrames(temp_dir, duplication_counts)
            /\ pc' = "single_frame"
       ELSE /\ pc' = "raised"
            /\ UNCHANGED temp_dir
    /\ UNCHANGED <<script, gif, frame_durations_ms, frames, iteration,
                   uniform_duration, duplication_counts, avifenc>>

\* the condition of line 289 is false
NoDuplication ==
    /\ pc = "duplicate"
    /\ ~(duplication_counts # <<>> /\ AnyAbove1(duplication_counts))
    /\ pc' = "single_frame"
    /\ UNCHANGED <<script, gif, frame_durations_ms, frames, iteration,
                   uniform_duration, duplication_counts, temp_dir, avifenc>>

\* line 293
EnsureTwoFrames ==
    /\ pc = "single_frame"
    /\ temp_dir' = HandleSingleFrame(temp_dir)
    /\ pc' = "encode"
    /\ UNCHANGED <<script, gif, frame_durations_ms, frames, iteration,
                   uniform_duration, duplication_counts, avifenc>>

\* convert_png_to_avif: one --duration for every frame
ConvertPngToAvif ==
    /\ pc = "encode"
    /\ LET png_files == SortedPng(temp_dir)
       IN  IF png_files = <<>>
           THEN /\ pc' = "raised"
                /\ UNCHANGED avifenc
           ELSE /\ avifenc' = [invoked |-> TRUE,
                               files |-> ContentsOf(png_files),
                               durations |-> [i \in 1..Len(png_files) |-> uniform_duration]]
                /\ \E ok \in BOOLEAN : pc' = IF ok THEN "complete" ELSE "raised"
    /\ UNCHANGED <<script, gif, frame_durations_ms, frames, iteration,
                   uniform_duration, duplication_counts, temp_dir>>

\* return True: the with block removes the temporary directory
ReturnTrue ==
    /\ pc = "complete"
    /\ temp_dir' = <<>>
    /\ pc' = "returned_true"
    /\ UNCHANGED <<script, gif, frame_durations_ms, frames, iteration,
                   uniform_duration, duplication_counts, avifenc>>

\* except Exception: the directory is removed, the error printed, False returned
ReturnFalse ==
    /\ pc = "raised"
    /\ temp_dir' = <<>>
    /\ pc' = "returned_false"
    /\ UNCHANGED <<script, gif, frame_durations_ms, frames, iteration,
                   uniform_duration, duplication_counts, avifenc>>

\* -------------------------------- avif_gifs/gif_to_avif.py: the pipeline
\* optimize_gif_alpha: the glob under the input file is empty, the GIF is copied
AvifGifsOptimize ==
    /\ pc = "ag_optimize"
    /\ \E ok \in BOOLEAN : pc' = IF ok THEN "ag_frames" ELSE "raised"
    /\ UNCHANGED <<script, gif, frame_durations_ms, frames, iteration,
                   uniform_duration, duplication_counts, temp_dir, avifenc>>

\* gif_to_frames: durations and png frames of the copy, in one pass
AvifGifsGifToFrames ==
    /\ pc = "ag_frames"
    /\ \/ /\ frame_durations_ms' = [i \in 1..Len(gif) |-> Clamp(gif[i])]
          /\ temp_dir' = PngFrames(Len(gif))
          /\ pc' = "ag_two_frames"
       \/ /\ pc' = "raised"
          /\ UNCHANGED <<frame_durations_ms, temp_dir>>
    /\ UNCHANGED <<script, gif, frames, iteration, uniform_duration,
                   duplication_counts, avifenc>>

\* lines 193-196
AvifGifsEnsureTwoFrames ==
    /\ pc = "ag_two_frames"
    /\ IF Len(frame_durations_ms) = 1
       THEN /\ temp_dir' = HandleSingleFrame(temp_dir)
            /\ frame_durations_ms' = Append(frame_durations_ms, frame_durations_ms[1])
       ELSE UNCHANGED <<temp_dir, frame_durations_ms>>
    /\ pc' = "ag_encode"
    /\ UNCHANGED <<script, gif, frames, iteration, uniform_duration,
                   duplication_counts, avifenc>>

\* convert_png_to_avif: a --duration:u before each frame whose duration changes
AvifGifsConvertPngToAvif ==
    /\ pc = "ag_encode"
    /\ LET png_files == SortedPng(temp_dir)
       IN  IF png_files = <<>> \/ Len(frame_durations_ms) # Len(png_files)
           THEN /\ pc' = "raised"
                /\ UNCHANGED avifenc
           ELSE /\ avifenc' = [invoked |-> TRUE,
                               files |-> ContentsOf(png_files),
                               durations |-> frame_durations_ms]
                /\ \E ok \in BOOLEAN : pc' = IF ok THEN "complete" ELSE "raised"
    /\ UNCHANGED <<script, gif, frame_durations_ms, frames, iteration,
                   uniform_duration, duplication_counts, temp_dir>>

Next ==
    \/ GetFrameDurations
    \/ Fallback
    \/ TimingStart
    \/ TimingSplit
    \/ TimingBreak
    \/ TimingExhausted
    \/ TimingReturn
    \/ OptimizeGifAlpha
    \/ ConvertGifToPng
    \/ DuplicateFramesForTiming
    \/ NoDuplication
    \/ EnsureTwoFrames
    \/ ConvertPngToAvif
    \/ ReturnTrue
    \/ ReturnFalse
    \/ AvifGifsOptimize
    \/ AvifGifsGifToFrames
    \/ AvifGifsEnsureTwoFrames
    \/ AvifGifsConvertPngToAvif

Spec == Init /\ [][Next]_vars
SpecBig == InitBig /\ [][Next]_vars

\* ============================================================== properties
\* calculate_timing has returned to the main pipeline with durations read
TimingReturned ==
    /\ script = "main"
    /\ frame_durations_ms # <<>>
    /\ pc \notin {"get_durations", "calculate_timing", "loop", "average"}

\* calculate_timing is running or has returned
TimingStarted ==
    /\ script = "main"
    /\ frame_durations_ms # <<>>
    /\ pc \notin {"get_durations", "calculate_timing"}

IsPowerOfTwo(n) == \E k \in 0..13 : n = 2 ^ k

AllAtMost(ds, lo, hi) == \A i \in 1..Len(ds) : lo <= ds[i] /\ ds[i] <= hi

\* max <= 1.1 * min or max - min <= 10, over a list of durations
WithinTolerance(ds) ==
    \A i, j \in 1..Len(ds) :
        ds[i] >= ds[j] => (10 * ds[i] <= 11 * ds[j] \/ ds[i] - ds[j] <= 10)

\* ---- C1
\* C1: for every non-empty sequence of durations >= 1, calculate_timing runs
\* at most 12 splitting iterations, can always take its next step while in
\* the loop, and returns one count per input duration, each a power of two.
C1_TerminatesWithPowerOfTwoCounts ==
    /\ iteration <= 12
    /\ pc = "loop" => ENABLED (TimingSplit \/ TimingBreak \/ TimingExhausted)
    /\ TimingReturned =>
          /\ Len(duplication_counts) = Len(frame_durations_ms)
          /\ \A i \in 1..Len(duplication_counts) :
                duplication_counts[i] >= 1 /\ IsPowerOfTwo(duplication_counts[i])

\* a call that used the whole cap and returned a count of 2^12
C1_Witness ==
    /\ TimingReturned
    /\ iteration = 12
    /\ \E i \in 1..Len(duplication_counts) : duplication_counts[i] = 4096

\* ---- C2
\* C2 as stated: for every input with durations in 1..4096 the loop ends,
\* within its cap, with max <= 1.1 * min or max - min <= 10.
C2_AlwaysConverges ==
    (TimingStarted /\ pc = "average" /\ AllAtMost(frame_durations_ms, 1, 4096))
        => WithinTolerance(DurationsOf(frames))

\* C2 amended: for every input with durations in 1..4096 the loop ends either
\* by its break, with the final durations within tolerance, or with all 12
\* iterations used; before the cap is reached it never ends out of tolerance.
C2_ConvergesOrExhaustsCap ==
    (TimingStarted /\ pc = "average" /\ AllAtMost(frame_durations_ms, 1, 4096))
        => (WithinTolerance(DurationsOf(frames)) \/ iteration = 12)

\* the cap used up with the durations still out of tolerance
C2_Witness ==
    /\ TimingStarted
    /\ pc = "average"
    /\ AllAtMost(frame_durations_ms, 1, 4096)
    /\ iteration = 12
    /\ ~WithinTolerance(DurationsOf(frames))

\* ---- C3
\* C3: when all input durations equal one value d, calculate_timing splits
\* nothing and returns (d, [1, ..., 1]) with one count per input element.
C3_AllEqualIsFixedPoint ==
    (TimingReturned /\ \A i \in 1..Len(frame_durations_ms) :
                          frame_durations_ms[i] = frame_durations_ms[1])
        => /\ iteration = 0
           /\ uniform_duration = frame_durations_ms[1]
           /\ duplication_counts = [i \in 1..Len(frame_durations_ms) |-> 1]

\* an all-equal input of more than one frame has been balanced
C3_Witness ==
    /\ TimingReturned
    /\ pc = "optimize"
    /\ Len(frame_durations_ms) >= 2
    /\ \A i \in 1..Len(frame_durations_ms) : frame_durations_ms[i] = frame_durations_ms[1]

\* ---- C4
\* the least duration of a list
LeastOf(ds) == CHOOSE d \in {ds[i] : i \in 1..Len(ds)} : \A i \in 1..Len(ds) : d <= ds[i]

\* the list is its minimum d > 10 times powers of two 2^k, every k <= 12
PowerOfTwoMultiples(ds) ==
    /\ LeastOf(ds) > 10
    /\ \A i \in 1..Len(ds) : \E k \in 0..12 : ds[i] = LeastOf(ds) * (2 ^ k)

\* C4: for an input of durations d * 2^k_i (d the minimum, d > 10, k_i <= 12)
\* the result is uniformDuration = d and counts 2^k_i, so the total playback
\* time sum(counts[i] * uniformDuration) equals the sum of the input durations.
C4_PowerOfTwoMultiplesExact ==
    (TimingReturned /\ PowerOfTwoMultiples(frame_durations_ms))
        => /\ uniform_duration = LeastOf(frame_durations_ms)
           /\ \A i \in 1..Len(frame_durations_ms) :
                 /\ IsPowerOfTwo(duplication_counts[i])
                 /\ duplication_counts[i] * LeastOf(frame_durations_ms)
                       = frame_durations_ms[i]
           /\ SumSeq([i \in 1..Len(frame_durations_ms) |->
                        duplication_counts[i] * uniform_duration])
                 = SumSeq(frame_durations_ms)

\* an input with k = 12 has been balanced
C4_Witness ==
    /\ TimingReturned
    /\ PowerOfTwoMultiples(frame_durations_ms)
    /\ \E i, j \in 1..Len(frame_durations_ms) :
          frame_durations_ms[i] = 4096 * frame_durations_ms[j]

\* ---- C5
\* counts[lo..hi] expanded: counts[i] consecutive copies of frame i, in order
RECURSIVE ExpandedRange(_, _, _)
ExpandedRange(counts, lo, hi) ==
    IF lo > hi THEN <<>>
    ELSE IF lo = hi THEN [j \in 1..counts[lo] |-> lo]
    ELSE LET mid == (lo + hi) \div 2
         IN  ExpandedRange(counts, lo, mid) \o ExpandedRange(counts, mid + 1, hi)

\* the encoder was called after duplicate_frames_for_timing ran to its end
EncodedAfterDuplication ==
    /\ script = "main"
    /\ avifenc.invoked
    /\ duplication_counts # <<>>
    /\ AnyAbove1(duplication_counts)

\* C5: when duplicate_frames_for_timing has run with one count per source
\* frame, the encoder receives, in original frame order, counts[i] consecutive
\* copies of source frame i for each i, sum(counts) frames in all.
C5_EncoderGetsExpandedFramesInOrder ==
    EncodedAfterDuplication
        => /\ avifenc.files = ExpandedRange(duplication_counts, 1, Len(duplication_counts))
           /\ Len(avifenc.files) = SumSeq(duplication_counts)

\* ---- C6
\* the directory holds pictures of the first frame only: one frame was decoded
SoleFrame == temp_dir # <<>> /\ \A i \in 1..Len(temp_dir) : temp_dir[i].content = 1

\* the encoder has been called and the directory it read is still there
Encoded == avifenc.invoked /\ pc \in {"complete", "raised"}

\* C6 as stated: the encoder is always called with at least two frames, and
\* for a GIF of a single frame it is called with two copies of that frame,
\* both with the frame's original (clamped) duration.
C6_SoleFrameKeepsOriginalDuration ==
    /\ avifenc.invoked => Len(avifenc.files) >= 2
    /\ (Encoded /\ SoleFrame /\ Len(gif) = 1)
          => /\ avifenc.files = <<1, 1>>
             /\ avifenc.durations = <<Clamp(gif[1]), Clamp(gif[1])>>

\* C6 amended: the encoder is always called with at least two frames, and for
\* a GIF of a single frame it is called with two copies of that frame, both
\* with the frame's original duration when the durations were read and both
\* with the 40 ms fallback when get_frame_durations_pil returned None.
C6_SoleFrameDuplicated ==
    /\ avifenc.invoked => Len(avifenc.files) >= 2
    /\ (Encoded /\ SoleFrame /\ Len(gif) = 1)
          => /\ avifenc.files = <<1, 1>>
             /\ frame_durations_ms # <<>>
                   => avifenc.durations = <<Clamp(gif[1]), Clamp(gif[1])>>
             /\ frame_durations_ms = <<>>
                   => avifenc.durations = <<40, 40>>

\* a single-frame GIF whose durations were read has been encoded
C6_Witness ==
    /\ Encoded
    /\ SoleFrame
    /\ Len(gif) = 1
    /\ frame_durations_ms # <<>>
    /\ script = "main"

\* ---- C7
\* duplicate_frames_for_timing is about to be called with a wrong count list
MismatchedCall ==
    /\ pc = "duplicate"
    /\ duplication_counts # <<>>
    /\ AnyAbove1(duplication_counts)
    /\ Len(temp_dir) # Len(duplication_counts)

\* its assertion has failed and the exception is on its way out
MismatchRaised ==
    /\ script = "main"
    /\ pc = "raised"
    /\ temp_dir # <<>>
    /\ ~avifenc.invoked

\* C7: called with a count list whose length differs from the number of source
\* frames, duplicate_frames_for_timing raises before copying or removing any
\* frame; the conversion then returns False, the encoder is never invoked and
\* nothing runs after the return.
C7_MismatchFailsFast ==
    [][ /\ MismatchedCall =>
            (pc' = "raised" /\ temp_dir' = temp_dir /\ ~avifenc'.invoked)
        /\ MismatchRaised =>
            (pc' = "returned_false" /\ ~avifenc'.invoked)
        /\ pc = "returned_false" => (pc' = "returned_false" /\ avifenc' = avifenc)
      ]_vars

\* the assertion has failed on a directory of frames that is left as it was
C7_Witness ==
    /\ MismatchRaised
    /\ Len(temp_dir) # Len(duplication_counts)
    /\ temp_dir = PngFrames(Len(temp_dir))

\* ---- C8
\* the largest duration of a list of records
LargestOf(fs) ==
    CHOOSE d \in {fs[i].duration : i \in 1..Len(fs)} :
        \A i \in 1..Len(fs) : fs[i].duration <= d

\* C8: an iteration that does not pass the convergence test halves every
\* record at the current maximum and doubles its subdivisions, leaves every
\* other record as it is, and so strictly lowers the maximum.
C8_SplitsEveryLongest ==
    [][ (pc = "loop" /\ iteration < 12 /\ ~WithinTolerance(DurationsOf(frames)))
          => /\ iteration' = iteration + 1
             /\ Len(frames') = Len(frames)
             /\ \A i \in 1..Len(frames) :
                   IF frames[i].duration = LargestOf(frames)
                   THEN /\ frames'[i].duration = frames[i].duration \div 2
                        /\ frames'[i].subdivisions = frames[i].subdivisions * 2
                   ELSE frames'[i] = frames[i]
             /\ LargestOf(frames') < LargestOf(frames)
      ]_vars

\* two records tied at the maximum were split in the first iteration
C8_Witness ==
    /\ pc = "loop"
    /\ iteration = 1
    /\ \E i, j \in 1..Len(frames) :
          i # j /\ frames[i].subdivisions = 2 /\ frames[j].subdivisions = 2

\* ---- C9
\* C9: the durations read are all >= 1, every record's duration stays >= 1
\* throughout normalization, and the uniform duration returned is >= 1.
C9_DurationsStayPositive ==
    /\ \A i \in 1..Len(frame_durations_ms) : frame_durations_ms[i] >= 1
    /\ \A i \in 1..Len(frames) : frames[i].duration >= 1
    /\ TimingReturned => uniform_duration >= 1

\* a GIF with a zero delay has been balanced with splits
C9_Witness ==
    /\ TimingReturned
    /\ iteration > 0
    /\ \E i \in 1..Len(gif) : gif[i] = 0

\* ---- C10
\* C10: at every point of normalization each record's duration is
\* floor(original / subdivisions): subdivisions * duration <= original
\* < subdivisions * (duration + 1).
C10_DurationIsFloorOfOriginal ==
    TimingStarted =>
        /\ Len(frames) = Len(frame_durations_ms)
        /\ \A i \in 1..Len(frames) :
              /\ frames[i].duration = frame_durations_ms[i] \div frames[i].subdivisions
              /\ frames[i].subdivisions * frames[i].duration <= frame_durations_ms[i]
              /\ frame_durations_ms[i] < frames[i].subdivisions * (frames[i].duration + 1)

\* a record split at least twice whose halvings have lost time
C10_Witness ==
    /\ TimingStarted
    /\ \E i \in 1..Len(frames) :
          /\ frames[i].subdivisions >= 4
          /\ frames[i].subdivisions * frames[i].duration < frame_durations_ms[i]

====
